---- MODULE Spec2Model ----
(***************************************************************************)
(* ZeroPadding3D layer (src/layers/convolutional/ZeroPadding3D.js).        *)
(*                                                                         *)
(* One layer instance is constructed from its attrs and then called        *)
(* repeatedly.  Tensors are modelled as ndarrays: a flat data buffer with  *)
(* shape, stride and offset, so that transpose / hi / lo are views and     *)
(* ops.assign writes through a view into the buffer.  The Tensor methods   *)
(* and the mapInput program the layer calls live outside this file; they   *)
(* are modelled at their interface: the 2D forms, the offset table, the    *)
(* texture and the gather the program performs.                            *)
(*                                                                         *)
(* Spec      a layer configured with one number, called repeatedly on      *)
(*           tensors of one or two elements (cache reuse).                 *)
(* SpecForms a layer configured in any accepted form, called once on any   *)
(*           tensor within the bounds.                                     *)
(***************************************************************************)
EXTENDS Integers, Sequences, FiniteSets, TLC

\* ------------------------------------------------------------------ bounds
MaxDim == 2        \* largest extent of any axis of an input tensor
MaxSize == 4       \* largest number of elements of an input tensor
MaxPad == 1        \* largest single padding amount
MaxPadTotal == 1   \* largest sum of the six amounts of an explicit pair-triple
MaxCalls == 2      \* calls made on one layer instance

Seeds == {0, 10}   \* an input's element at flat position k is seed + k (never 0)

\* ----------------------------------------------------------------- ndarray
RECURSIVE Prod(_)
Prod(s) == IF s = <<>> THEN 1 ELSE Head(s) * Prod(Tail(s))

\* row-major strides of a freshly allocated ndarray
Strides(shape) == [i \in 1..Len(shape) |-> Prod(SubSeq(shape, i + 1, Len(shape)))]

ndarray(data, shape) ==
  [data |-> data, shape |-> shape, stride |-> Strides(shape), offset |-> 0]

Zeros(n) == [k \in 1..n |-> 0]

NoArray == [data |-> <<>>, shape |-> <<>>, stride |-> <<>>, offset |-> 0]

\* all index tuples (0-based, as in JS) of a rank-4 / rank-2 shape
Indices4(shape) ==
  {<<a, b, c, d>> : a \in 0..(shape[1] - 1), b \in 0..(shape[2] - 1),
                    c \in 0..(shape[3] - 1), d \in 0..(shape[4] - 1)}

RECURSIVE Dot(_, _)
Dot(u, v) == IF u = <<>> THEN 0 ELSE Head(u) * Head(v) + Dot(Tail(u), Tail(v))

Addr(a, idx) == a.offset + Dot(idx, a.stride)

Get(a, idx) == a.data[Addr(a, idx) + 1]

\* ndarray.transpose(axes): axis i of the view is axis axes[i] of the array
transpose(a, axes) ==
  [a EXCEPT !.shape = [i \in 1..Len(axes) |-> a.shape[axes[i] + 1]],
            !.stride = [i \in 1..Len(axes) |-> a.stride[axes[i] + 1]]]

\* ndarray.hi(...h): keep indices below h on every axis
hi(a, h) == [a EXCEPT !.shape = h]

\* ndarray.lo(...l): drop indices below l on every axis
lo(a, l) ==
  [a EXCEPT !.shape = [i \in 1..Len(l) |-> a.shape[i] - l[i]],
            !.offset = a.offset + Dot(l, a.stride)]

\* ops.assign(dest, src): dest[idx] = src[idx] for every idx of dest's shape;
\* yields dest's buffer after the writes
ops_assign(dest, src) ==
  LET I == Indices4(dest.shape)
      hit(p) == {idx \in I : Addr(dest, idx) = p}
  IN  [p \in 1..Len(dest.data) |->
         IF hit(p - 1) = {} THEN dest.data[p]
         ELSE Get(src, CHOOSE idx \in hit(p - 1) : TRUE)]

\* ops.assigns(dest, v): every element of dest becomes v
ops_assigns(dest, v) == [p \in 1..Len(dest.data) |-> v]

\* ------------------------------------------------------------------ Tensor
\* keras-js Tensor: the ndarray plus the bookkeeping of its 2D texture form
NoTensor ==
  [tensor |-> NoArray, originalShape |-> <<>>, indicesForReshaped |-> NoArray,
   is2DReshaped |-> FALSE, is2DSquareReshaped |-> FALSE,
   glTexture |-> <<>>, glTextureShape |-> <<>>, hasGLTexture |-> FALSE]

\* new Tensor(data, shape): an empty data array gives a zero-filled buffer
Tensor(data, shape) ==
  [NoTensor EXCEPT
     !.tensor = ndarray(IF data = <<>> THEN Zeros(Prod(shape)) ELSE data, shape)]

\* ------------------------------------------------------------- constructor
\* attrs.padding as configured: form "undefined" (absent), "number" (vals =
\* <<p>>), "flat" (vals = <<a, b, c>>) or "pairs" (vals = <<b0, a0, b1, a1, b2, a2>>)
\* as NormalizePadding, but a flat triple is expanded from its first number only
NormalizePadding_flatAsNumber(p) ==
  LET padding == IF p.form = "undefined"
                 THEN [form |-> "pairs", vals |-> <<1, 1, 1, 1, 1, 1>>] ELSE p
  IN  IF padding.form = "pairs"
      THEN <<<<padding.vals[1], padding.vals[2]>>,
             <<padding.vals[3], padding.vals[4]>>,
             <<padding.vals[5], padding.vals[6]>>>>
      ELSE <<<<padding.vals[1], padding.vals[1]>>,
             <<padding.vals[1], padding.vals[1]>>,
             <<padding.vals[1], padding.vals[1]>>>>

NormalizePadding(p) ==
  LET padding == IF p.form = "undefined"
                 THEN [form |-> "pairs", vals |-> <<1, 1, 1, 1, 1, 1>>] ELSE p
  IN  IF padding.form \in {"flat", "pairs"}
      THEN IF padding.form = "pairs"
           THEN <<<<padding.vals[1], padding.vals[2]>>,
                  <<padding.vals[3], padding.vals[4]>>,
                  <<padding.vals[5], padding.vals[6]>>>>
           ELSE <<<<padding.vals[1], padding.vals[1]>>,
                  <<padding.vals[2], padding.vals[2]>>,
                  <<padding.vals[3], padding.vals[3]>>>>
      ELSE <<<<padding.vals[1], padding.vals[1]>>,
             <<padding.vals[1], padding.vals[1]>>,
             <<padding.vals[1], padding.vals[1]>>>>

\* the layer instance after construction; gpu and outbound are the Layer base
\* class's state (the backend flag and the number of downstream layers)
constructor(attrs, gpu, outbound) ==
  [gpu |-> gpu, outbound |-> outbound,
   padding |-> NormalizePadding(attrs.padding),
   dataFormat |-> IF attrs.data_format = "undefined" THEN "channels_last"
                  ELSE attrs.data_format,
   inputShape |-> <<>>, outputShape |-> <<>>,
   output |-> NoTensor, indexMap |-> NoTensor,
   outputAllocs |-> 0, indexMapAllocs |-> 0]

\* ---------------------------------------------------------------- _callCPU
\* as toChannelsLast, but with two spatial axes exchanged
toChannelsLast_swapped(this, t) ==
  IF this.dataFormat = "channels_first"
  THEN [t EXCEPT !.tensor = transpose(t.tensor, <<2, 1, 3, 0>>)]
  ELSE t

\* x.tensor = x.tensor.transpose(1, 2, 3, 0) when the layer is channels_first
toChannelsLast(this, t) ==
  IF this.dataFormat = "channels_first"
  THEN [t EXCEPT !.tensor = transpose(t.tensor, <<1, 2, 3, 0>>)]
  ELSE t

\* as toChannelsFirst, but the tensor is left in channels-last order
toChannelsFirst_skipped(this, t) == t

\* t.tensor = t.tensor.transpose(3, 0, 1, 2) when the layer is channels_first
toChannelsFirst(this, t) ==
  IF this.dataFormat = "channels_first"
  THEN [t EXCEPT !.tensor = transpose(t.tensor, <<3, 0, 1, 2>>)]
  ELSE t

\* as cpuOutputShape, but the before amount is added twice, the after amount never
cpuOutputShape_beforeTwice(this, inputShape) ==
  <<inputShape[1] + this.padding[1][1] + this.padding[1][1],
    inputShape[2] + this.padding[2][1] + this.padding[2][1],
    inputShape[3] + this.padding[3][1] + this.padding[3][1],
    inputShape[4]>>

\* this.outputShape of the CPU path, from the channels-last input shape
cpuOutputShape(this, inputShape) ==
  <<inputShape[1] + this.padding[1][1] + this.padding[1][2],
    inputShape[2] + this.padding[2][1] + this.padding[2][2],
    inputShape[3] + this.padding[3][1] + this.padding[3][2],
    inputShape[4]>>

\* as cpuCopyView, but the region starts at the after amounts
cpuCopyView_after(this, out, inputShape) ==
  lo(hi(out,
        <<inputShape[1] + this.padding[1][2],
          inputShape[2] + this.padding[2][2],
          inputShape[3] + this.padding[3][2],
          inputShape[4]>>),
     <<this.padding[1][2], this.padding[2][2], this.padding[3][2], 0>>)

\* the view this.output.tensor.hi(...).lo(...) the input is assigned to
cpuCopyView(this, out, inputShape) ==
  lo(hi(out,
        <<inputShape[1] + this.padding[1][1],
          inputShape[2] + this.padding[2][1],
          inputShape[3] + this.padding[3][1],
          inputShape[4]>>),
     <<this.padding[1][1], this.padding[2][1], this.padding[3][1], 0>>)

\* yields the layer and the caller's tensor as _callCPU leaves them
_callCPU(this, x0) ==
  LET x1 == toChannelsLast(this, x0)
      inputShape == x1.tensor.shape
      outputShape == cpuOutputShape(this, inputShape)
      out0 == Tensor(<<>>, outputShape)
      out1 == [out0 EXCEPT !.tensor.data =
                 ops_assign(cpuCopyView(this, out0.tensor, inputShape), x1.tensor)]
  IN  [this |-> [this EXCEPT !.inputShape = inputShape,
                             !.outputShape = outputShape,
                             !.output = toChannelsFirst(this, out1),
                             !.outputAllocs = @ + 1],
       x |-> toChannelsFirst(this, x1)]

\* ------------------------------------------- Tensor: 2D texture encodings
\* the least d with d * d >= n  (Math.ceil(Math.sqrt(n)))
CeilSqrt(n) == CHOOSE d \in 0..n : d * d >= n /\ \A e \in 0..n : e * e >= n => d <= e

\* index tuple of flat row-major position k (0-based) in a shape
Unravel(k, shape) == [i \in 1..Len(shape) |-> (k \div Strides(shape)[i]) % shape[i]]

\* tensorUtils.createIndicesFor2DReshaped: for every element of the 4D tensor,
\* its linear offset (row * cols + col) in the tensor's 2D form
createIndicesFor2DReshaped(shape, square) ==
  LET size == Prod(shape)
      cols == IF square THEN CeilSqrt(size) ELSE shape[Len(shape)]
      row(k) == IF square THEN k \div cols
                ELSE Dot(SubSeq(Unravel(k, shape), 1, Len(shape) - 1),
                         Strides(SubSeq(shape, 1, Len(shape) - 1)))
      col(k) == IF square THEN k % cols ELSE Unravel(k, shape)[Len(shape)]
  IN  ndarray([p \in 1..size |-> row(p - 1) * cols + col(p - 1)], shape)

\* Tensor.reshapeTo2D(): rows are the flattened leading axes, columns the last axis
reshapeTo2D(t) ==
  LET shape == t.tensor.shape
      axisSize == shape[Len(shape)]
      otherAxesSize == Prod(SubSeq(shape, 1, Len(shape) - 1))
  IN  [t EXCEPT
         !.originalShape = shape,
         !.indicesForReshaped = createIndicesFor2DReshaped(shape, FALSE),
         !.tensor = ndarray([p \in 1..(otherAxesSize * axisSize) |->
                               Get(t.tensor, Unravel(p - 1, shape))],
                            <<otherAxesSize, axisSize>>),
         !.is2DReshaped = TRUE]

\* Tensor.reshapeTo2DSquare(): the buffer laid into a square, zero-filled at the end
reshapeTo2DSquare(t) ==
  LET shape == t.tensor.shape
      squareDim == CeilSqrt(Prod(shape))
  IN  [t EXCEPT
         !.originalShape = shape,
         !.indicesForReshaped = createIndicesFor2DReshaped(shape, TRUE),
         !.tensor = ndarray([p \in 1..(squareDim * squareDim) |->
                               IF p <= Len(t.tensor.data) THEN t.tensor.data[p] ELSE 0],
                            <<squareDim, squareDim>>),
         !.is2DSquareReshaped = TRUE]

\* Tensor.createGLTexture(): the 2D form uploaded as it is
createGLTexture(t) ==
  [t EXCEPT !.glTexture = t.tensor.data, !.glTextureShape = t.tensor.shape,
            !.hasGLTexture = TRUE]

\* Tensor.transferFromGLTexture(): the texture read back as a 2D ndarray
transferFromGLTexture(t) ==
  [t EXCEPT !.tensor = ndarray(t.glTexture, t.glTextureShape)]

\* Tensor.reshapeFrom2D(): back to the original shape, row by row
reshapeFrom2D(t) ==
  LET cols == t.originalShape[Len(t.originalShape)]
  IN  [t EXCEPT !.tensor =
         ndarray([p \in 1..Prod(t.originalShape) |->
                    Get(t.tensor, <<(p - 1) \div cols, (p - 1) % cols>>)],
                 t.originalShape)]

\* Tensor.reshapeFrom2DSquare(): the first size elements of the square
reshapeFrom2DSquare(t) ==
  [t EXCEPT !.tensor =
     ndarray(SubSeq(t.tensor.data, 1, Prod(t.originalShape)), t.originalShape)]

\* ------------------------------------------------------- mapInput program
\* webgl2.runProgram with mapInput.glsl: output texel p takes the x texel at the
\* offset the index map holds at p, or 0 where it holds -1.  A fetch outside
\* x's texture has no defined value: oob stands for what the driver returns.
runMapInput(output, x, indexMap, inputCols, oob) ==
  LET rows == x.glTextureShape[1]
      fetch(index) ==
        LET rowIndex == index \div inputCols
            colIndex == index % inputCols
        IN  IF rowIndex < rows THEN x.glTexture[rowIndex * inputCols + colIndex + 1]
            ELSE oob
  IN  [output EXCEPT !.glTexture =
         [p \in 1..Prod(output.glTextureShape) |->
            IF indexMap.glTexture[p] # -1 THEN fetch(indexMap.glTexture[p]) ELSE 0]]

\* --------------------------------------------------------- _createIndexMap
\* first corner of the index map's copy region, in the layer's axis order
sliceStart(this) ==
  IF this.dataFormat = "channels_first"
  THEN <<0, this.padding[1][1], this.padding[2][1], this.padding[3][1]>>
  ELSE <<this.padding[1][1], this.padding[2][1], this.padding[3][1], 0>>

\* corner past the end of the index map's copy region
sliceEnd(this) ==
  IF this.dataFormat = "channels_first"
  THEN <<this.inputShape[1],
         this.inputShape[2] + this.padding[1][1],
         this.inputShape[3] + this.padding[2][1],
         this.inputShape[4] + this.padding[3][1]>>
  ELSE <<this.inputShape[1] + this.padding[1][1],
         this.inputShape[2] + this.padding[2][1],
         this.inputShape[3] + this.padding[3][1],
         this.inputShape[4]>>

\* as _createIndexMap, but the map is filled with 0 before the offsets are copied
_createIndexMap_zeroFilled(this, indicesForReshaped, is2DReshaped) ==
  IF this.indexMap # NoTensor THEN this
  ELSE
    LET indices == Tensor(indicesForReshaped.data, indicesForReshaped.shape)
        indexMap0 == Tensor(<<>>, this.outputShape)
        indexMap2 == [indexMap0 EXCEPT !.tensor.data =
                        ops_assign(lo(hi(indexMap0.tensor, sliceEnd(this)), sliceStart(this)),
                                   indices.tensor)]
        indexMap3 == IF is2DReshaped THEN reshapeTo2D(indexMap2)
                     ELSE reshapeTo2DSquare(indexMap2)
    IN  [this EXCEPT !.indexMap = createGLTexture(indexMap3),
                     !.indexMapAllocs = @ + 1]

\* yields the layer with its index map built, or as it is when it has one
_createIndexMap(this, indicesForReshaped, is2DReshaped) ==
  IF this.indexMap # NoTensor THEN this
  ELSE
    LET indices == Tensor(indicesForReshaped.data, indicesForReshaped.shape)
        indexMap0 == Tensor(<<>>, this.outputShape)
        indexMap1 == [indexMap0 EXCEPT !.tensor.data = ops_assigns(indexMap0.tensor, -1)]
        indexMap2 == [indexMap1 EXCEPT !.tensor.data =
                        ops_assign(lo(hi(indexMap1.tensor, sliceEnd(this)), sliceStart(this)),
                                   indices.tensor)]
        indexMap3 == IF is2DReshaped THEN reshapeTo2D(indexMap2)
                     ELSE reshapeTo2DSquare(indexMap2)
    IN  [this EXCEPT !.indexMap = createGLTexture(indexMap3),
                     !.indexMapAllocs = @ + 1]

\* ---------------------------------------------------------------- _callGPU
\* the input uploaded, square, when it has no texture yet
uploadInput(x0) ==
  IF ~x0.hasGLTexture THEN createGLTexture(reshapeTo2DSquare(x0)) ELSE x0

\* this.outputShape of the GPU path, in the layer's axis order
gpuOutputShape(this, inputShape) ==
  IF this.dataFormat = "channels_first"
  THEN <<inputShape[1],
         inputShape[2] + this.padding[1][1] + this.padding[1][2],
         inputShape[3] + this.padding[2][1] + this.padding[2][2],
         inputShape[4] + this.padding[3][1] + this.padding[3][2]>>
  ELSE <<inputShape[1] + this.padding[1][1] + this.padding[1][2],
         inputShape[2] + this.padding[2][1] + this.padding[2][2],
         inputShape[3] + this.padding[3][1] + this.padding[3][2],
         inputShape[4]>>

\* as createOutput, but a new output tensor is made on every invocation
createOutput_always(this, x1) ==
  LET out0 == Tensor(<<>>, this.outputShape)
      out1 == IF x1.is2DReshaped THEN reshapeTo2D(out0) ELSE reshapeTo2DSquare(out0)
  IN  [this EXCEPT !.output = createGLTexture(out1), !.outputAllocs = @ + 1]

\* the output tensor and its texture, made when the layer has none
createOutput(this, x1) ==
  IF this.output = NoTensor
  THEN LET out0 == Tensor(<<>>, this.outputShape)
           out1 == IF x1.is2DReshaped THEN reshapeTo2D(out0) ELSE reshapeTo2DSquare(out0)
       IN  [this EXCEPT !.output = createGLTexture(out1), !.outputAllocs = @ + 1]
  ELSE this

\* GPU -> CPU data transfer when the layer has no outbound layer
readOutput(this, out) ==
  IF this.outbound = 0
  THEN LET got == transferFromGLTexture(out)
       IN  IF got.is2DReshaped THEN reshapeFrom2D(got) ELSE reshapeFrom2DSquare(got)
  ELSE out

\* yields the layer and the caller's tensor as _callGPU leaves them
_callGPU(this, x0, oob) ==
  LET x1 == uploadInput(x0)
      inputShape == x1.originalShape
      this1 == [this EXCEPT !.inputShape = inputShape,
                            !.outputShape = gpuOutputShape(this, inputShape)]
      this2 == _createIndexMap(this1, x1.indicesForReshaped, x1.is2DReshaped)
      this3 == createOutput(this2, x1)
      ran == runMapInput(this3.output, x1, this3.indexMap, x1.glTextureShape[2], oob)
  IN  [this |-> [this3 EXCEPT !.output = readOutput(this3, ran)], x |-> x1]

\* -------------------------------------------------------------- state
VARIABLES
  attrs,       \* the attrs the layer was constructed from
  layer,       \* the ZeroPadding3D instance
  x,           \* the tensor last passed to call(), as the call left it
  xArg,        \* the same tensor as it was when call() was entered
  calls,       \* number of call() invocations so far
  sameKeys,    \* all invocations so far had one input shape and 2D encoding
  dataVaried   \* two successive invocations had different element values

vars == <<attrs, layer, x, xArg, calls, sameKeys, dataVaried>>

\* ------------------------------------------------------------ inputs
PadVals == 0..MaxPad

RECURSIVE Sum(_)
Sum(s) == IF s = <<>> THEN 0 ELSE Head(s) + Sum(Tail(s))

\* a single number as padding
NumberPaddings == {[form |-> "number", vals |-> <<p>>] : p \in PadVals}

\* every form attrs.padding is accepted in
PaddingAttrs ==
  {[form |-> "undefined", vals |-> <<>>]}
  \cup NumberPaddings
  \cup {[form |-> "flat", vals |-> v] :
          v \in {w \in [1..3 -> PadVals] : Sum(w) <= MaxPadTotal}}
  \cup {[form |-> "pairs", vals |-> v] :
          v \in {w \in [1..6 -> PadVals] : Sum(w) <= MaxPadTotal}}

Shapes == {s \in [1..4 -> 1..MaxDim] : Prod(s) <= MaxSize}

\* the shapes of one or two elements
SmallShapes == {s \in Shapes : Prod(s) <= 2}

\* a rank-4 tensor the caller holds in host memory
HostTensor(shape, seed) == Tensor([k \in 1..Prod(shape) |-> seed + k], shape)

HostInputs(shapes) == {HostTensor(s, seed) : s \in shapes, seed \in Seeds}

\* what a GPU layer is handed: a host tensor (uploaded by the layer, square), or
\* the GPU-resident row-major output of an upstream layer
GPUInputs(shapes) ==
  HostInputs(shapes) \cup {createGLTexture(reshapeTo2D(t)) : t \in HostInputs(shapes)}

\* the logical 4D array of a tensor, whichever form it is held in
Logical(t) ==
  IF Len(t.tensor.shape) = 4 THEN t.tensor
  ELSE IF t.is2DReshaped THEN reshapeFrom2D(t).tensor
  ELSE reshapeFrom2DSquare(t).tensor

Elems(a) == [idx \in Indices4(a.shape) |-> Get(a, idx)]

Key(t) == <<Logical(t).shape, t.is2DReshaped>>

\* what a fetch outside x's texture may give: nothing is fetched outside on a
\* layer whose index map is yet to be built or fits x
OutOfBounds(this, x0) ==
  LET texels == IF x0.hasGLTexture THEN Prod(x0.glTextureShape)
                ELSE CeilSqrt(Prod(x0.tensor.shape)) * CeilSqrt(Prod(x0.tensor.shape))
  IN  IF \E p \in 1..Len(this.indexMap.glTexture) : this.indexMap.glTexture[p] >= texels
      THEN {0, x0.tensor.data[1]}
      ELSE {0}

\* ------------------------------------------------------------ behaviour
Fresh(a, gpu, outbound) ==
  /\ attrs = a
  /\ layer = constructor(a, gpu, outbound)
  /\ x = NoTensor
  /\ xArg = NoTensor
  /\ calls = 0
  /\ sameKeys = TRUE
  /\ dataVaried = FALSE

Backends == {<<FALSE, 0>>, <<TRUE, 0>>, <<TRUE, 1>>}

\* a layer configured with a single number, on either backend
Init ==
  \E p \in NumberPaddings, df \in {"channels_last", "channels_first"}, b \in Backends :
    Fresh([padding |-> p, data_format |-> df], b[1], b[2])

\* a layer configured in any accepted form, on either backend
InitForms ==
  \E p \in PaddingAttrs, df \in {"undefined", "channels_last", "channels_first"},
     b \in Backends :
    Fresh([padding |-> p, data_format |-> df], b[1], b[2])

Returned(res, x0) ==
  /\ layer' = res.this
  /\ x' = res.x
  /\ xArg' = x0
  /\ calls' = calls + 1
  /\ sameKeys' = (sameKeys /\ (calls = 0 \/ Key(res.x) = Key(x)))
  /\ dataVaried' = (dataVaried \/ (calls > 0 /\ Elems(Logical(res.x)) # Elems(Logical(x))))
  /\ UNCHANGED attrs

Invoke(shapes) ==
  \/ /\ layer.gpu
     /\ \E x0 \in GPUInputs(shapes) :
          \E oob \in OutOfBounds(layer, x0) :
            Returned(_callGPU(layer, x0, oob), x0)
  \/ /\ ~layer.gpu
     /\ \E x0 \in HostInputs(shapes) : Returned(_callCPU(layer, x0), x0)

\* call(x): one invocation of the layer, on the backend it was built for
call ==
  /\ calls < MaxCalls
  /\ Invoke(SmallShapes)

\* the first invocation of a layer
firstCall ==
  /\ calls = 0
  /\ Invoke(Shapes)

Next == call

Spec == Init /\ [][Next]_vars

NextForms == firstCall

SpecForms == InitForms /\ [][NextForms]_vars

\* ------------------------------------------------ zero padding, as specified
\* the tensor axis holding the channels, and the spatial axis number (1..3) of
\* a tensor axis, for a data_format
ChannelAxis(df) == IF df = "channels_first" THEN 1 ELSE 4

SpatialNo(j, df) == IF df = "channels_first" THEN j - 1 ELSE j

\* input shape plus before + after on each spatial axis, channels unchanged
PaddedShape(shape, pad, df) ==
  [j \in 1..4 |->
     IF j = ChannelAxis(df) THEN shape[j]
     ELSE shape[j] + pad[SpatialNo(j, df)][1] + pad[SpatialNo(j, df)][2]]

\* the before amount of every tensor axis (none on the channel axis)
BeforeOf(pad, df) ==
  [j \in 1..4 |-> IF j = ChannelAxis(df) THEN 0 ELSE pad[SpatialNo(j, df)][1]]

InCopyRegion(idx, shape, pad, df) ==
  \A j \in 1..4 : /\ BeforeOf(pad, df)[j] <= idx[j]
                  /\ idx[j] < BeforeOf(pad, df)[j] + shape[j]

Shifted(idx, pad, df) == [j \in 1..4 |-> idx[j] - BeforeOf(pad, df)[j]]

\* the input in the copy region, zero elsewhere
ZeroPadded(a, pad, df) ==
  [idx \in Indices4(PaddedShape(a.shape, pad, df)) |->
     IF InCopyRegion(idx, a.shape, pad, df) THEN Get(a, Shifted(idx, pad, df)) ELSE 0]

\* the layer's output as read back from its texture and decoded to 4D
ReadBack(t) == IF Len(t.tensor.shape) = 4 THEN t.tensor ELSE Logical(transferFromGLTexture(t))

CalledCPU == calls >= 1 /\ ~layer.gpu

CalledGPU == calls >= 1 /\ layer.gpu

\* ------------------------------------------------------------------ claims

\* C1: on the CPU path the returned tensor's extent is the input's plus
\* before_i + after_i on each spatial axis and the input's on the channel axis,
\* for channels_last and channels_first
C1_CPUOutputShape ==
  CalledCPU =>
    layer.output.tensor.shape = PaddedShape(xArg.tensor.shape, layer.padding, layer.dataFormat)

C1_Witness ==
  /\ CalledCPU
  /\ layer.dataFormat = "channels_first"
  /\ layer.padding = <<<<0, 0>>, <<0, 1>>, <<0, 0>>>>
  /\ xArg.tensor.shape = <<2, 1, 1, 2>>
  /\ layer.output.tensor.shape = <<2, 1, 2, 2>>

\* C2: the CPU-path output equals the input at every coordinate of the copy
\* region (shifted back by before_i) and zero at every other coordinate
C2_CPUCopyRegion ==
  CalledCPU =>
    \A idx \in Indices4(layer.output.tensor.shape) :
      Get(layer.output.tensor, idx) =
        IF InCopyRegion(idx, xArg.tensor.shape, layer.padding, layer.dataFormat)
        THEN Get(xArg.tensor, Shifted(idx, layer.padding, layer.dataFormat))
        ELSE 0

C2_Witness ==
  /\ CalledCPU
  /\ layer.dataFormat = "channels_last"
  /\ layer.padding = <<<<1, 0>>, <<0, 0>>, <<0, 0>>>>
  /\ xArg.tensor.shape = <<2, 2, 1, 1>>
  /\ Get(layer.output.tensor, <<0, 1, 0, 0>>) = 0
  /\ Get(layer.output.tensor, <<2, 1, 0, 0>>) = Get(xArg.tensor, <<1, 1, 0, 0>>)

\* C3: the GPU path's output, read back and decoded, is identical in shape and
\* elements to the CPU path's output for the same input, padding and data_format
C3_GPUEqualsCPU ==
  CalledGPU =>
    Elems(ReadBack(layer.output)) =
      Elems(_callCPU(constructor(attrs, FALSE, 0),
                     Tensor(Logical(xArg).data, Logical(xArg).shape)).this.output.tensor)

\* C4: the index map a GPU invocation uses is the one built for that
\* invocation's input shape and 2D encoding: its shape is the current output shape
C4_IndexMapCurrent ==
  CalledGPU =>
    /\ layer.indexMap.originalShape = layer.outputShape
    /\ layer.indexMap.is2DReshaped = x.is2DReshaped

\* C5: after every invocation the output tensor has the padded shape resolved
\* for that invocation's input
C5_OutputAllocatedToShape ==
  calls >= 1 =>
    ReadBack(layer.output).shape =
      PaddedShape(Logical(xArg).shape, layer.padding, layer.dataFormat)

\* C6: over GPU invocations that all have one input shape and encoding, the index
\* map and the output tensor are allocated once, on the first invocation, and
\* each invocation's output is the zero-padded form of its own input
C6_ReuseSameShape ==
  (CalledGPU /\ sameKeys) =>
    /\ layer.indexMapAllocs = 1
    /\ layer.outputAllocs = 1
    /\ Elems(ReadBack(layer.output)) =
         ZeroPadded(Logical(xArg), layer.padding, layer.dataFormat)

C6_Witness ==
  /\ CalledGPU
  /\ calls >= 2
  /\ sameKeys
  /\ dataVaried
  /\ Prod(layer.outputShape) > Prod(layer.inputShape)

\* C7: the constructor turns a number p into [[p,p],[p,p],[p,p]], a flat triple
\* [a,b,c] into [[a,a],[b,b],[c,c]], keeps a triple of pairs, and defaults to
\* all ones, whatever the data_format; a layer configured in a shorthand form
\* gives the output of a layer configured with the explicit pair-triple
ExplicitPairs(p) ==
  CASE p.form = "undefined" -> <<1, 1, 1, 1, 1, 1>>
    [] p.form = "number" -> <<p.vals[1], p.vals[1], p.vals[1], p.vals[1], p.vals[1], p.vals[1]>>
    [] p.form = "flat" -> <<p.vals[1], p.vals[1], p.vals[2], p.vals[2], p.vals[3], p.vals[3]>>
    [] p.form = "pairs" -> p.vals

ExplicitLayer ==
  constructor([attrs EXCEPT !.padding = [form |-> "pairs", vals |-> ExplicitPairs(attrs.padding)]],
              layer.gpu, layer.outbound)

C7_PaddingNormalized ==
  /\ layer.padding = <<SubSeq(ExplicitPairs(attrs.padding), 1, 2),
                       SubSeq(ExplicitPairs(attrs.padding), 3, 4),
                       SubSeq(ExplicitPairs(attrs.padding), 5, 6)>>
  /\ calls >= 1 =>
       layer.output = (IF layer.gpu THEN _callGPU(ExplicitLayer, xArg, 0)
                       ELSE _callCPU(ExplicitLayer, xArg)).this.output

C7_Witness ==
  /\ calls >= 1
  /\ attrs.padding = [form |-> "flat", vals |-> <<0, 1, 0>>]
  /\ attrs.data_format = "channels_first"
  /\ layer.padding = <<<<0, 0>>, <<1, 1>>, <<0, 0>>>>
  /\ Prod(xArg.tensor.shape) = MaxSize

\* C8: reordering a channels-last input to channels-first, applying a
\* channels_first CPU layer and reordering the result back gives the tensor a
\* channels_last CPU layer with the same padding gives on the input directly
ChannelsFirstCopy(a) ==
  LET shape == <<a.shape[4], a.shape[1], a.shape[2], a.shape[3]>>
  IN  Tensor([p \in 1..Prod(shape) |->
                LET i == Unravel(p - 1, shape)
                IN  Get(a, <<i[2], i[3], i[4], i[1]>>)],
             shape)

C8_RoundTrip ==
  (CalledCPU /\ layer.dataFormat = "channels_last") =>
    LET first == constructor([attrs EXCEPT !.data_format = "channels_first"], FALSE, 0)
        out == _callCPU(first, ChannelsFirstCopy(xArg.tensor)).this.output.tensor
    IN  /\ out.shape[1] = layer.output.tensor.shape[4]
        /\ Elems(transpose(out, <<1, 2, 3, 0>>)) = Elems(layer.output.tensor)

C8_Witness ==
  /\ CalledCPU
  /\ layer.dataFormat = "channels_last"
  /\ layer.padding = <<<<0, 0>>, <<0, 0>>, <<0, 1>>>>
  /\ xArg.tensor.shape = <<1, 2, 1, 2>>

\* C9: call() leaves the caller's tensor as it was: on the CPU path the very
\* same array (shape, axis order, elements), on the GPU path the same logical
\* 4D shape and elements
C9_InputUnchanged ==
  calls >= 1 =>
    /\ Logical(x).shape = Logical(xArg).shape
    /\ Elems(Logical(x)) = Elems(Logical(xArg))
    /\ ~layer.gpu => x = xArg

C9_Witness ==
  /\ calls >= 2
  /\ \/ ~layer.gpu /\ layer.dataFormat = "channels_first" /\ xArg.tensor.shape = <<1, 2, 1, 1>>
     \/ layer.gpu /\ ~xArg.hasGLTexture /\ x.hasGLTexture

\* C10: the index map built on the first GPU invocation has one entry per
\* output element: inside the copy region the offset table's entry for the
\* input element shifted back by before_i, outside it -1; so as many entries
\* differ from -1 as the input has elements
C10_IndexMapBuilt ==
  (CalledGPU /\ calls = 1) =>
    LET map == Logical(layer.indexMap)
        pad == layer.padding
        df == layer.dataFormat
        inShape == x.originalShape
    IN  /\ map.shape = PaddedShape(inShape, pad, df)
        /\ Len(map.data) = Prod(PaddedShape(inShape, pad, df))
        /\ \A idx \in Indices4(map.shape) :
             Get(map, idx) =
               IF InCopyRegion(idx, inShape, pad, df)
               THEN Get(x.indicesForReshaped, Shifted(idx, pad, df))
               ELSE -1
        /\ Cardinality({idx \in Indices4(map.shape) : Get(map, idx) # -1}) = Prod(inShape)

C10_Witness ==
  /\ CalledGPU
  /\ calls = 1
  /\ layer.dataFormat = "channels_first"
  /\ layer.padding = <<<<0, 0>>, <<0, 0>>, <<1, 0>>>>
  /\ x.originalShape = <<2, 1, 1, 2>>
  /\ x.is2DReshaped

====
